---------------------------- MODULE Spec2Model ----------------------------
(***************************************************************************)
(* Model of the events application of event_scheduler:                    *)
(*   - EventSerializer.validate / create / update   (events/serializers.py)*)
(*   - get_event_occurrences                         (events/utils.py)     *)
(*   - EventListView.get / post, EventDetailView.put / delete              *)
(*                                                   (events/views.py)     *)
(*                                                                         *)
(* A datetime is a record                                                  *)
(*   [day, sec, us, off, aware]                                            *)
(* day  : wall-clock day number, day 0 = 2025-01-01                        *)
(* sec  : wall-clock second of the day, 0 .. 86399                         *)
(* us   : microsecond, 0 .. 999999                                         *)
(* off  : UTC offset of the wall clock in seconds (tzinfo.utcoffset)       *)
(* aware: whether the value carries a tzinfo                               *)
(* A date (datetime.date) is a record [day].  None is the record           *)
(* [none |-> TRUE] where a datetime may stand, and the string NoneStr      *)
(* where a string may stand (TLC compares values of one kind only).        *)
(***************************************************************************)
EXTENDS Integers, Sequences, FiniteSets, TLC

None == [none |-> TRUE]

NoneStr == "<None>"

SecondsPerDay == 24 * 60 * 60

DT(day, sec, us, off) == [day |-> day, sec |-> sec, us |-> us, off |-> off, aware |-> TRUE]

Naive(day, sec, us) == [day |-> day, sec |-> sec, us |-> us, off |-> 0, aware |-> FALSE]

(* django.utils.timezone.is_aware *)
is_aware(dt) == dt.aware

(* floor division and modulus that are right for negative numerators *)
FloorDiv(a, b) == IF a >= 0 THEN a \div b ELSE -((-a + b - 1) \div b)

FloorMod(a, b) == a - b * FloorDiv(a, b)

(* datetime.astimezone(timezone.utc): the same instant, wall clock at offset 0 *)
astimezone_utc(dt) ==
    LET s == dt.sec - dt.off
    IN  [day |-> dt.day + FloorDiv(s, SecondsPerDay),
         sec |-> FloorMod(s, SecondsPerDay),
         us |-> dt.us, off |-> 0, aware |-> TRUE]

(* datetime.replace(hour=0, minute=0, second=0, microsecond=0): the wall     *)
(* clock fields are overwritten, day and tzinfo are kept                     *)
replace_midnight(dt) == [dt EXCEPT !.sec = 0, !.us = 0]

(* datetime.replace(microsecond=0), as dateutil's rrule does to dtstart *)
replace_us0(dt) == [dt EXCEPT !.us = 0]

(* the instant of an aware datetime as <<utc day, utc second, microsecond>> *)
Instant(dt) == LET u == astimezone_utc(dt) IN <<u.day, u.sec, u.us>>

(* lexicographic order on triples of integers *)
TripleLt(a, b) ==
    \/ a[1] < b[1]
    \/ a[1] = b[1] /\ a[2] < b[2]
    \/ a[1] = b[1] /\ a[2] = b[2] /\ a[3] < b[3]

(* comparison of aware datetimes: by instant *)
DtLt(a, b) == TripleLt(Instant(a), Instant(b))

DtLe(a, b) == ~DtLt(b, a)

(* (end - start).total_seconds() > n, for whole n: the difference in whole   *)
(* seconds exceeds n, or equals n with a positive microsecond remainder      *)
TotalSecondsGt(end, start, n) ==
    LET e == Instant(end)
        s == Instant(start)
        usd == e[3] - s[3]
        secs == (e[1] - s[1]) * SecondsPerDay + (e[2] - s[2]) + FloorDiv(usd, 1000000)
        rem == FloorMod(usd, 1000000)
    IN  secs > n \/ (secs = n /\ rem > 0)

(* datetime + timedelta(days=n) *)
AddDays(dt, n) == [dt EXCEPT !.day = dt.day + n]

(* datetime.date(): the wall-clock calendar day *)
date(dt) == [day |-> dt.day]

(***************************************************************************)
(* Calendar and isoformat().  A string is a sequence of character codes.   *)
(***************************************************************************)
IsLeap(y) == (y % 4 = 0 /\ y % 100 # 0) \/ y % 400 = 0

YearLen(y) == IF IsLeap(y) THEN 366 ELSE 365

MonthLen(y, m) ==
    IF m = 2 THEN (IF IsLeap(y) THEN 29 ELSE 28)
    ELSE IF m \in {4, 6, 9, 11} THEN 30 ELSE 31

RECURSIVE YearFrom(_, _)
(* <<year, day of year (0-based)>> of day number d counted from 1 January of y *)
YearFrom(y, d) ==
    IF d < 0 THEN YearFrom(y - 1, d + YearLen(y - 1))
    ELSE IF d >= YearLen(y) THEN YearFrom(y + 1, d - YearLen(y))
    ELSE <<y, d>>

RECURSIVE MonthFrom(_, _, _)
(* <<month, day of month>> of 0-based day-of-year d of year y, from month m *)
MonthFrom(y, m, d) ==
    IF d >= MonthLen(y, m) THEN MonthFrom(y, m + 1, d - MonthLen(y, m))
    ELSE <<m, d + 1>>

(* <<year, month, day>> of a day number *)
Civil(day) ==
    LET yd == YearFrom(2025, day)
        md == MonthFrom(yd[1], 1, yd[2])
    IN  <<yd[1], md[1], md[2]>>

(* ord() of the characters isoformat() produces *)
Ord(c) ==
    CASE c = "+" -> 43 [] c = "-" -> 45 [] c = "." -> 46 [] c = "0" -> 48
      [] c = ":" -> 58 [] c = "T" -> 84

ChrDash == Ord("-")

ChrPlus == Ord("+")

ChrDot == Ord(".")

ChrColon == Ord(":")

ChrT == Ord("T")

Digit(n) == Ord("0") + n

Digits2(n) == <<Digit((n \div 10) % 10), Digit(n % 10)>>

Digits4(n) == Digits2(n \div 100) \o Digits2(n % 100)

Digits6(n) == Digits2(n \div 10000) \o Digits4(n % 10000)

(* date.isoformat(): YYYY-MM-DD *)
date_isoformat(day) ==
    LET c == Civil(day)
    IN  Digits4(c[1]) \o <<ChrDash>> \o Digits2(c[2]) \o <<ChrDash>> \o Digits2(c[3])

(* datetime.isoformat(): YYYY-MM-DDTHH:MM:SS[.ffffff][+HH:MM] *)
datetime_isoformat(dt) ==
    LET hh == dt.sec \div 3600
        mm == (dt.sec % 3600) \div 60
        ss == dt.sec % 60
        a == IF dt.off < 0 THEN -dt.off ELSE dt.off
        frac == IF dt.us = 0 THEN <<>> ELSE <<ChrDot>> \o Digits6(dt.us)
        zone == IF ~dt.aware THEN <<>>
                ELSE <<IF dt.off < 0 THEN ChrDash ELSE ChrPlus>> \o Digits2(a \div 3600)
                     \o <<ChrColon>> \o Digits2((a % 3600) \div 60)
    IN  date_isoformat(dt.day) \o <<ChrT>> \o Digits2(hh) \o <<ChrColon>> \o Digits2(mm)
        \o <<ChrColon>> \o Digits2(ss) \o frac \o zone

IsDate(x) == DOMAIN x = {"day"}

(* occ.isoformat() for a date or a datetime *)
isoformat(x) == IF IsDate(x) THEN date_isoformat(x.day) ELSE datetime_isoformat(x)

RECURSIVE StrLtFrom(_, _, _)
StrLtFrom(a, b, i) ==
    IF i > Len(b) THEN FALSE
    ELSE IF i > Len(a) THEN TRUE
    ELSE IF a[i] # b[i] THEN a[i] < b[i]
    ELSE StrLtFrom(a, b, i + 1)

(* Python's str < str: lexicographic by code point, a proper prefix is smaller *)
StrLt(a, b) == StrLtFrom(a, b, 1)

(***************************************************************************)
(* dateutil.rrule.rrulestr(s, dtstart=...): the rule strings the model     *)
(* uses and what the parser makes of them.  A parsed rule is               *)
(* [interval (days between instants), count (0: the rule never ends)];     *)
(* a string the parser rejects raises ValueError.                          *)
(***************************************************************************)
RuleDaily == "FREQ=DAILY"

RuleDaily3 == "FREQ=DAILY;COUNT=3"

RuleWeekly == "FREQ=WEEKLY"

RuleBogus == "EVERY DAY"

ValueError == [raised |-> "ValueError"]

rrulestr(s) ==
    CASE s = RuleDaily -> [interval |-> 1, count |-> 0]
      [] s = RuleDaily3 -> [interval |-> 1, count |-> 3]
      [] s = RuleWeekly -> [interval |-> 7, count |-> 0]
      [] OTHER -> ValueError

(* the i-th instant (i = 0, 1, ...) a rule anchored at dtstart produces, or *)
(* None when the rule is exhausted: dtstart.replace(microsecond=0) + i*interval *)
RuleInstant(rule, dtstart, i) ==
    IF rule.count # 0 /\ i >= rule.count THEN None
    ELSE AddDays(replace_us0(dtstart), i * rule.interval)

(* Python truthiness of an optional string: None and "" are falsy *)
Truthy(v) == v # NoneStr /\ v # ""

(* dict.get(key, default) on a dict modelled as a function *)
Get(d, k, default) == IF k \in DOMAIN d THEN d[k] ELSE default

(* d with d[k] = v (dict item assignment) *)
Put1(d, k, v) == [x \in DOMAIN d \cup {k} |-> IF x = k THEN v ELSE d[x]]

(* str.strip() on a string modelled as a sequence of one-character strings *)
Whitespace == {" ", "\t", "\n"}

RECURSIVE lstrip(_)
lstrip(s) == IF s # <<>> /\ Head(s) \in Whitespace THEN lstrip(Tail(s)) ELSE s

RECURSIVE rstrip(_)
rstrip(s) ==
    IF s # <<>> /\ s[Len(s)] \in Whitespace THEN rstrip(SubSeq(s, 1, Len(s) - 1)) ELSE s

strip(s) == rstrip(lstrip(s))

(***************************************************************************)
(* EventSerializer.validate                                                *)
(***************************************************************************)
ErrTitle == "Title is required and cannot be empty."

ErrStartRequired == "Start time is required for all events."

ErrStartNaive == "Start time must be timezone-aware."

ErrEndNaive == "End time must be timezone-aware."

ErrAllDayEnd == "Full-day events should not specify an end time."

ErrEndRequired == "Non-full-day events must specify an end time."

ErrEndBeforeStart == "End time must be after start time."

ErrTooLong == "Non-full-day events cannot exceed 24 hours."

ErrRule == "Invalid recurrence rule format: "

Reject(msg) == [ok |-> FALSE, error |-> msg]

Accept(vd) == [ok |-> TRUE, data |-> vd]

(* lines 64-72: the recurrence rule is parsed, the validated data returned *)
validate_rule(validated_data) ==
    LET recurrence_rule == Get(validated_data, "recurrence_rule", NoneStr)
    IN  IF Truthy(recurrence_rule) /\ rrulestr(recurrence_rule) = ValueError
        THEN Reject(ErrRule)
        ELSE Accept(validated_data)

(* mutant of validate_branch: end_time equal to start_time passes *)
validate_branch_equal_end(data, is_all_day, start_time, end_time) ==
    IF is_all_day
    THEN IF end_time # None THEN Reject(ErrAllDayEnd)
         ELSE validate_rule(Put1(data, "start_time", replace_midnight(start_time)))
    ELSE IF end_time = None THEN Reject(ErrEndRequired)
         ELSE IF DtLt(end_time, start_time) THEN Reject(ErrEndBeforeStart)
         ELSE IF TotalSecondsGt(end_time, start_time, 24 * 60 * 60) THEN Reject(ErrTooLong)
         ELSE validate_rule(data)

(* lines 41-63: the all-day / timed branch *)
validate_branch(data, is_all_day, start_time, end_time) ==
    IF is_all_day
    THEN IF end_time # None THEN Reject(ErrAllDayEnd)
         ELSE validate_rule(Put1(data, "start_time", replace_midnight(start_time)))
    ELSE IF end_time = None THEN Reject(ErrEndRequired)
         ELSE IF DtLe(end_time, start_time) THEN Reject(ErrEndBeforeStart)
         ELSE IF TotalSecondsGt(end_time, start_time, 24 * 60 * 60) THEN Reject(ErrTooLong)
         ELSE validate_rule(data)

validate(data) ==
    LET is_all_day == Get(data, "is_all_day", FALSE)
        start_time == Get(data, "start_time", None)
        end_time == Get(data, "end_time", None)
        title == Get(data, "title", <<>>)
    IN  IF title = <<>> \/ strip(title) = <<>> THEN Reject(ErrTitle)
        ELSE IF start_time = None THEN Reject(ErrStartRequired)
        ELSE IF ~is_aware(start_time) THEN Reject(ErrStartNaive)
        ELSE IF end_time # None /\ ~is_aware(end_time) THEN Reject(ErrEndNaive)
        ELSE validate_branch(data, is_all_day, start_time, end_time)

(***************************************************************************)
(* get_event_occurrences                                                   *)
(***************************************************************************)
(* datetime + timedelta(seconds=n), 0 <= n < 86400 *)
AddSeconds(dt, n) ==
    [dt EXCEPT !.day = dt.day + (dt.sec + n) \div SecondsPerDay,
               !.sec = (dt.sec + n) % SecondsPerDay]

(* line 35: timezone.now() + timedelta(days=365 * max_future_years) *)
max_future_date(clock, max_future_years) == AddDays(clock, 365 * max_future_years)

(* event.start_time.astimezone(utc).date() / occ.astimezone(utc).date() *)
utc_date(dt) == date(astimezone_utc(dt))

(* the order list.sort() uses: dates by day, aware datetimes by instant *)
OccLt(a, b) == IF IsDate(a) THEN a.day < b.day ELSE DtLt(a, b)

RECURSIVE InsertSorted(_, _)
InsertSorted(sorted, x) ==
    IF sorted = <<>> THEN <<x>>
    ELSE IF OccLt(x, sorted[Len(sorted)])
         THEN Append(InsertSorted(SubSeq(sorted, 1, Len(sorted) - 1), x), sorted[Len(sorted)])
         ELSE Append(sorted, x)

RECURSIVE SortFrom(_, _, _)
SortFrom(sorted, xs, i) ==
    IF i > Len(xs) THEN sorted ELSE SortFrom(InsertSorted(sorted, xs[i]), xs, i + 1)

(* list.sort(): ascending and stable *)
sort(xs) == SortFrom(<<>>, xs, 1)

Raise(e) == [kind |-> "raise", error |-> e]

Return(v) == [kind |-> "return", value |-> v]

(* mutant of single_occurrence: an event exactly at start_date is left out *)
single_occurrence_strict(event, start_date, end_date) ==
    IF DtLt(start_date, event.start_time) /\ DtLe(event.start_time, end_date)
    THEN <<IF event.is_all_day THEN utc_date(event.start_time) ELSE event.start_time>>
    ELSE <<>>

(* lines 38-43: an event without a rule is its own single occurrence *)
single_occurrence(event, start_date, end_date) ==
    IF DtLe(start_date, event.start_time) /\ DtLe(event.start_time, end_date)
    THEN <<IF event.is_all_day THEN utc_date(event.start_time) ELSE event.start_time>>
    ELSE <<>>

(* mutant of before_loop: the parser's ValueError is not caught *)
before_loop_raise(event, start_date, end_date) ==
    IF ~is_aware(start_date) THEN Raise(ValueError)
    ELSE IF ~Truthy(event.recurrence_rule)
         THEN Return(single_occurrence(event, start_date, end_date))
    ELSE IF rrulestr(event.recurrence_rule) = ValueError THEN Raise(ValueError)
    ELSE [kind |-> "loop", rule |-> rrulestr(event.recurrence_rule)]

(* lines 32-48: everything before the loop.  The outcome is a raise, a     *)
(* return, or the entry into the loop with the parsed rule                  *)
before_loop(event, start_date, end_date) ==
    IF ~is_aware(start_date) THEN Raise(ValueError)
    ELSE IF ~Truthy(event.recurrence_rule)
         THEN Return(single_occurrence(event, start_date, end_date))
    ELSE IF rrulestr(event.recurrence_rule) = ValueError THEN Return(<<>>)
    ELSE [kind |-> "loop", rule |-> rrulestr(event.recurrence_rule)]

(* the loop's state: the instants pulled from the rule so far, the accepted *)
(* occurrences, and whether the loop has been left                          *)
LoopStart == [pulled |-> 0, occurrences |-> <<>>, left |-> FALSE]

(* mutant of loop_body: an instant past end_date does not end the loop *)
loop_body_no_time_bound(w, event, rule, start_date, end_date, max_occurrences) ==
    LET occ == RuleInstant(rule, event.start_time, w.pulled)
    IN  IF occ = None THEN [w EXCEPT !.left = TRUE]
        ELSE IF DtLe(start_date, occ)
             THEN [pulled |-> w.pulled + 1,
                   occurrences |-> Append(w.occurrences, occ),
                   left |-> Len(w.occurrences) + 1 >= max_occurrences]
        ELSE [w EXCEPT !.pulled = @ + 1]

(* lines 51-57: one iteration of `for occ in rule`: the next instant is     *)
(* pulled; the loop is left when the rule is exhausted or at a break        *)
loop_body(w, event, rule, start_date, end_date, max_occurrences) ==
    LET occ == RuleInstant(rule, event.start_time, w.pulled)
    IN  IF occ = None THEN [w EXCEPT !.left = TRUE]
        ELSE IF DtLt(end_date, occ)
             THEN [w EXCEPT !.pulled = @ + 1, !.left = TRUE]
        ELSE IF DtLe(start_date, occ)
             THEN [pulled |-> w.pulled + 1,
                   occurrences |-> Append(w.occurrences, occ),
                   left |-> Len(w.occurrences) + 1 >= max_occurrences]
        ELSE [w EXCEPT !.pulled = @ + 1]

(* lines 58-62: all-day occurrences become UTC dates; the list is sorted *)
after_loop(event, occurrences) ==
    sort(IF event.is_all_day
         THEN [i \in 1..Len(occurrences) |-> utc_date(occurrences[i])]
         ELSE occurrences)

RECURSIVE run_loop(_, _, _, _, _, _)
(* the loop run to its end *)
run_loop(w, event, rule, start_date, end_date, max_occurrences) ==
    IF w.left THEN w
    ELSE run_loop(loop_body(w, event, rule, start_date, end_date, max_occurrences),
                  event, rule, start_date, end_date, max_occurrences)

(* one whole call, with the clock reading timezone.now() returns in it *)
get_event_occurrences(event, start_date, max_occurrences, max_future_years, clock) ==
    LET end_date == max_future_date(clock, max_future_years)
        b == before_loop(event, start_date, end_date)
    IN  IF b.kind # "loop" THEN b
        ELSE Return(after_loop(event,
                 run_loop(LoopStart, event, b.rule, start_date, end_date,
                          max_occurrences).occurrences))

(***************************************************************************)
(* State                                                                   *)
(***************************************************************************)
VARIABLES
    events,      \* the Event table: primary key -> row
    nextId,      \* the next primary key the table hands out
    response,    \* the last HTTP response of the create/update/delete views
    data,        \* the raw field set handed to validate
    result,      \* what validate made of it
    now,         \* the wall clock: what timezone.now() returns
    ticks,       \* how often the clock has advanced
    call,        \* the running call of get_event_occurrences: its arguments and end_date
    walk,        \* that call's loop state
    outcome,     \* what the call returned or raised
    request,     \* the running list request: its start_date and the rows still to expand
    occurrences, \* the occurrence records the list request has collected
    horizons,    \* the end_date each expansion of the list request was bounded by
    listResponse \* the list request's response

storeVars == <<events, nextId, response>>

valVars == <<data, result>>

clockVars == <<now, ticks>>

expVars == <<call, walk, outcome>>

listVars == <<request, occurrences, horizons, listResponse>>

(***************************************************************************)
(* Inputs                                                                  *)
(***************************************************************************)
(* the greatest number of rows ever created *)
MaxEvents == 1

TitleOk == <<"S", "y", "n", "c">>

TitleBlank == <<" ", "\t">>

(* 2025-01-11 10:00:00+00:00 *)
T_A == DT(10, 10 * 3600, 0, 0)

(* 2025-01-11 01:00:00.250000+03:00, which is 2025-01-10 22:00:00.25 UTC *)
T_B == DT(10, 3600, 250000, 3 * 3600)

(* 2025-01-11 22:00:00-05:00, which is 2025-01-12 03:00:00 UTC *)
T_C == DT(10, 22 * 3600, 0, -(5 * 3600))

(* a datetime without tzinfo *)
T_N == Naive(10, 12 * 3600, 0)

(* 2025-01-12 10:00:00+00:00 and one microsecond later: 24 h after T_A, and over *)
T_A24 == DT(11, 10 * 3600, 0, 0)

T_A24us == DT(11, 10 * 3600, 1, 0)

(* 2025-01-11 13:00:00+02:00 = 11:00 UTC: one hour after T_A *)
T_A1 == DT(10, 13 * 3600, 0, 2 * 3600)

(* no key, or the key with one of the values *)
OptField(k, S) == {<<>>} \cup {k :> v : v \in S}

FieldSets(Titles, Starts, Ends, Flags, Rules) ==
    {t @@ s @@ e @@ a @@ r :
        t \in OptField("title", Titles), s \in OptField("start_time", Starts),
        e \in OptField("end_time", Ends), a \in OptField("is_all_day", Flags),
        r \in OptField("recurrence_rule", Rules)}

(* the field sets that reach validate from the create and update views.    *)
(* The serializer's fields hand over aware datetimes in the zone the        *)
(* deployment configures, so any offset may arrive.                         *)
RequestData ==
    FieldSets({TitleOk}, {T_A, T_B, T_C}, {None, T_A1, T_A24, T_A24us},
              BOOLEAN, {RuleDaily})

(***************************************************************************)
(* EventSerializer.create / update and the views that call them            *)
(***************************************************************************)
AttributeError == [raised |-> "AttributeError"]

(* lines 84-92 and 106-114: start_time and end_time, where the key is      *)
(* present, are converted to UTC; None has no astimezone                   *)
to_utc(validated_data) ==
    IF \E k \in {"start_time", "end_time"} :
           k \in DOMAIN validated_data /\ validated_data[k] = None
    THEN AttributeError
    ELSE [k \in DOMAIN validated_data |->
             IF k \in {"start_time", "end_time"}
             THEN astimezone_utc(validated_data[k]) ELSE validated_data[k]]

(* models.py: the columns' defaults (description, which no code reads, is left out) *)
ModelDefaults ==
    [title |-> <<>>, start_time |-> None, end_time |-> None,
     is_all_day |-> FALSE, recurrence_rule |-> NoneStr]

(* for attr, value in validated_data.items(): setattr(instance, attr, value) *)
SetAttrs(instance, validated_data) ==
    [k \in DOMAIN instance |->
        IF k \in DOMAIN validated_data THEN validated_data[k] ELSE instance[k]]

Status(code) == [status |-> code]

(* validate has not run *)
Pending == [pending |-> TRUE]

(* EventListView.post: serializer.is_valid() runs validate, save() runs create *)
Post(d) ==
    /\ nextId <= MaxEvents
    /\ LET v == validate(d)
       IN  IF ~v.ok
           THEN /\ response' = Status(400)
                /\ UNCHANGED <<events, nextId>>
           ELSE LET vd == to_utc(v.data)
                IN  IF vd = AttributeError
                    THEN /\ response' = Status(500)
                         /\ UNCHANGED <<events, nextId>>
                    ELSE /\ events' = (nextId :> SetAttrs(ModelDefaults, vd)) @@ events
                         /\ nextId' = nextId + 1
                         /\ response' = Status(201)
    /\ UNCHANGED <<valVars, clockVars, expVars, listVars>>

(* EventDetailView.put: partial=True, so validate sees the supplied fields only *)
Put(pk, d) ==
    /\ IF pk \notin DOMAIN events
       THEN /\ response' = Status(404)
            /\ UNCHANGED <<events, nextId>>
       ELSE LET v == validate(d)
            IN  IF ~v.ok
                THEN /\ response' = Status(400)
                     /\ UNCHANGED <<events, nextId>>
                ELSE LET vd == to_utc(v.data)
                     IN  IF vd = AttributeError
                         THEN /\ response' = Status(500)
                              /\ UNCHANGED <<events, nextId>>
                         ELSE /\ events' = [events EXCEPT ![pk] = SetAttrs(@, vd)]
                              /\ response' = Status(200)
                              /\ UNCHANGED nextId
    /\ UNCHANGED <<valVars, clockVars, expVars, listVars>>

(* EventDetailView.delete *)
Delete(pk) ==
    /\ IF pk \notin DOMAIN events
       THEN /\ response' = Status(404)
            /\ UNCHANGED <<events, nextId>>
       ELSE /\ events' = [k \in DOMAIN events \ {pk} |-> events[k]]
            /\ response' = Status(204)
            /\ UNCHANGED nextId
    /\ UNCHANGED <<valVars, clockVars, expVars, listVars>>

vars ==
    <<events, nextId, response, data, result, now, ticks, call, walk, outcome,
      request, occurrences, horizons, listResponse>>

(* 2025-04-11 12:00:00+00:00 *)
Now0 == DT(100, 12 * 3600, 0, 0)

Idle == [idle |-> TRUE]

InitExpandVars ==
    /\ now = Now0
    /\ ticks = 0
    /\ call = Idle
    /\ walk = LoopStart
    /\ outcome = Idle
    /\ request = Idle
    /\ occurrences = <<>>
    /\ horizons = <<>>
    /\ listResponse = Status(0)

InitStore ==
    /\ events = <<>>
    /\ nextId = 1
    /\ response = Status(0)
    /\ data = <<>>
    /\ result = Pending
    /\ InitExpandVars

NextStore ==
    \/ \E d \in RequestData : Post(d)
    \/ \E pk \in 1..MaxEvents, d \in RequestData : Put(pk, d)
    \/ \E pk \in 1..MaxEvents : Delete(pk)

SpecStore == InitStore /\ [][NextStore]_vars

(***************************************************************************)
(* validate as a function of the raw field set                             *)
(***************************************************************************)
(* 2025-01-11 09:00:00+00:00: one hour before T_A *)
T_Early == DT(10, 9 * 3600, 0, 0)

(* the raw field sets validate is tried on *)
ValidateData ==
    FieldSets({<<>>, TitleBlank, TitleOk}, {T_A, T_B, T_N},
              {None, T_N, T_Early, T_A, T_A1, T_A24, T_A24us},
              BOOLEAN, {NoneStr, "", RuleDaily, RuleBogus})

Validate ==
    /\ result = Pending
    /\ result' = validate(data)
    /\ UNCHANGED <<data, storeVars, clockVars, expVars, listVars>>

InitValidate ==
    /\ data \in ValidateData
    /\ result = Pending
    /\ events = <<>>
    /\ nextId = 1
    /\ response = Status(0)
    /\ InitExpandVars

NextValidate == Validate

SpecValidate == InitValidate /\ [][NextValidate]_vars

(***************************************************************************)
(* get_event_occurrences, called with arguments of the caller's choice and *)
(* run one loop iteration at a time                                        *)
(***************************************************************************)
(* how often the clock advances *)
MaxTicks == 1

(* the greatest max_occurrences and max_future_years a caller passes *)
MaxOccurrences == 2

MaxYears == 1

Row(title, start_time, end_time, is_all_day, recurrence_rule) ==
    [title |-> title, start_time |-> start_time, end_time |-> end_time,
     is_all_day |-> is_all_day, recurrence_rule |-> recurrence_rule]

(* start times around the clock and around the horizons it gives; the third *)
(* carries microseconds, the last two lie a day short of and a second past  *)
(* the one-year horizon                                                     *)
ExpandStarts ==
    {AddDays(Now0, -2), Now0, [AddDays(Now0, -1) EXCEPT !.us = 500000],
     AddSeconds(Now0, 1), AddDays(Now0, 364), AddSeconds(AddDays(Now0, 365), 1)}

(* all-day rows start at a local midnight: 00:00 UTC, or 00:00+03:00 = 21:00 UTC *)
ExpandAllDayStarts == {DT(99, 0, 0, 0), DT(99, 21 * 3600, 0, 0), DT(464, 21 * 3600, 0, 0)}

ExpandRules == {NoneStr, "", RuleDaily, RuleDaily3, RuleWeekly, RuleBogus}

ExpandEvents ==
    {Row(TitleOk, st, AddSeconds(st, 3600), FALSE, r) : st \in ExpandStarts, r \in ExpandRules}
    \cup {Row(TitleOk, st, None, TRUE, r) : st \in ExpandAllDayStarts, r \in ExpandRules}

ExpandStartDates ==
    {AddDays(Now0, -1), DT(99, 21 * 3600, 0, 0), Now0, AddDays(Now0, 1), Naive(100, 0, 0)}

Running == call # Idle /\ outcome = Idle

(* the clock advances by a second *)
Tick ==
    /\ ticks < MaxTicks
    /\ now' = AddSeconds(now, 1)
    /\ ticks' = ticks + 1
    /\ UNCHANGED <<storeVars, valVars, expVars, listVars>>

(* lines 32-50: the call up to the loop *)
Call(event, start_date, max_occurrences, max_future_years) ==
    /\ call = Idle
    /\ LET end_date == max_future_date(now, max_future_years)
           b == before_loop(event, start_date, end_date)
       IN  /\ call' = [event |-> event, start_date |-> start_date,
                       max_occurrences |-> max_occurrences,
                       max_future_years |-> max_future_years,
                       clock |-> now, end_date |-> end_date,
                       rule |-> IF b.kind = "loop" THEN b.rule ELSE None]
           /\ outcome' = IF b.kind = "loop" THEN Idle ELSE b
    /\ walk' = LoopStart
    /\ UNCHANGED <<storeVars, valVars, clockVars, listVars>>

(* lines 51-57: one iteration of the loop *)
Iterate ==
    /\ Running
    /\ ~walk.left
    /\ walk' = loop_body(walk, call.event, call.rule, call.start_date, call.end_date,
                         call.max_occurrences)
    /\ UNCHANGED <<storeVars, valVars, clockVars, listVars, call, outcome>>

(* lines 58-62: the loop is left; the occurrences are converted, sorted, returned *)
Finish ==
    /\ Running
    /\ walk.left
    /\ outcome' = Return(after_loop(call.event, walk.occurrences))
    /\ UNCHANGED <<storeVars, valVars, clockVars, listVars, call, walk>>

InitExpand ==
    /\ events = <<>>
    /\ nextId = 1
    /\ response = Status(0)
    /\ data = <<>>
    /\ result = Pending
    /\ InitExpandVars

NextExpand ==
    \/ Tick
    \/ \E e \in ExpandEvents, sd \in ExpandStartDates,
          m \in 0..MaxOccurrences, y \in 0..MaxYears : Call(e, sd, m, y)
    \/ Iterate
    \/ Finish

SpecExpand == InitExpand /\ [][NextExpand]_vars

(* the loop is always given its turn: a call that has started runs on *)
SpecExpandFair == SpecExpand /\ WF_vars(Iterate) /\ WF_vars(Finish)

(***************************************************************************)
(* EventListView.get: the rows of the user are expanded one after the      *)
(* other while the clock runs; the occurrence records are sorted by the    *)
(* text of their start                                                     *)
(***************************************************************************)
(* the greatest number of rows of the listing user *)
MaxListEvents == 2

(* lines 35-36: the arguments the view passes *)
ViewMaxOccurrences == 1000

ViewMaxFutureYears == 10

(* end_time - start_time as <<days, seconds, microseconds>>, and occ + duration *)
Duration(end, start) ==
    LET e == Instant(end)
        b == Instant(start)
    IN  <<e[1] - b[1], e[2] - b[2], e[3] - b[3]>>

AddDuration(occ, d) ==
    LET us == occ.us + d[3]
        sec == occ.sec + d[2] + FloorDiv(us, 1000000)
    IN  [occ EXCEPT !.day = occ.day + d[1] + FloorDiv(sec, SecondsPerDay),
                    !.sec = FloorMod(sec, SecondsPerDay),
                    !.us = FloorMod(us, 1000000)]

(* 'end': None is modelled as the empty text *)
NoText == <<>>

(* lines 38-50: the record of one occurrence.  occ is the occurrence itself, *)
(* kept beside its text 'start'; event_id is the row's primary key          *)
occurrence_record(pk, event, occ) ==
    [event_id |-> pk,
     title |-> event.title,
     start |-> isoformat(occ),
     end |-> IF ~event.is_all_day /\ event.end_time # None
             THEN isoformat(AddDuration(occ, Duration(event.end_time, event.start_time)))
             ELSE NoText,
     is_all_day |-> event.is_all_day,
     occ |-> occ]

occurrence_records(pk, event, occs) ==
    [i \in 1..Len(occs) |-> occurrence_record(pk, event, occs[i])]

RECURSIVE InsertByStart(_, _)
InsertByStart(sorted, x) ==
    IF sorted = <<>> THEN <<x>>
    ELSE IF StrLt(x.start, sorted[Len(sorted)].start)
         THEN Append(InsertByStart(SubSeq(sorted, 1, Len(sorted) - 1), x), sorted[Len(sorted)])
         ELSE Append(sorted, x)

RECURSIVE SortByStartFrom(_, _, _)
SortByStartFrom(sorted, xs, i) ==
    IF i > Len(xs) THEN sorted ELSE SortByStartFrom(InsertByStart(sorted, xs[i]), xs, i + 1)

(* mutant of sort_by_start: the records stay in the order they were collected in *)
sort_by_start_skipped(xs) == xs

(* line 52: occurrences.sort(key=lambda x: x['start']), stable, by text *)
sort_by_start(xs) == SortByStartFrom(<<>>, xs, 1)

(* the primary keys of a table in ascending order *)
RECURSIVE PksFrom(_, _)
PksFrom(table, k) ==
    IF \A pk \in DOMAIN table : pk < k THEN <<>>
    ELSE IF k \in DOMAIN table THEN <<k>> \o PksFrom(table, k + 1)
    ELSE PksFrom(table, k + 1)

(* lines 27-30: the rows are queried, start_date is read off the clock *)
ListBegin ==
    /\ request = Idle
    /\ request' = [start_date |-> astimezone_utc(now), todo |-> PksFrom(events, 1)]
    /\ occurrences' = <<>>
    /\ horizons' = <<>>
    /\ UNCHANGED <<storeVars, valVars, clockVars, expVars, listResponse>>

(* lines 31-50: one iteration of `for event in events`: the row is expanded *)
(* by a call that reads the clock itself; an exception ends the request     *)
ListExpand ==
    /\ request # Idle
    /\ listResponse = Status(0)
    /\ request.todo # <<>>
    /\ LET pk == Head(request.todo)
           event == events[pk]
           r == get_event_occurrences(event, request.start_date, ViewMaxOccurrences,
                                      ViewMaxFutureYears, now)
       IN  /\ horizons' = Append(horizons, max_future_date(now, ViewMaxFutureYears))
           /\ IF r.kind = "raise"
              THEN /\ listResponse' = Status(500)
                   /\ UNCHANGED occurrences
              ELSE /\ occurrences' = occurrences \o occurrence_records(pk, event, r.value)
                   /\ UNCHANGED listResponse
    /\ request' = [request EXCEPT !.todo = Tail(@)]
    /\ UNCHANGED <<storeVars, valVars, clockVars, expVars>>

(* lines 52-54: the records are sorted and returned *)
ListFinish ==
    /\ request # Idle
    /\ listResponse = Status(0)
    /\ request.todo = <<>>
    /\ listResponse' = [status |-> 200, body |-> sort_by_start(occurrences)]
    /\ UNCHANGED <<storeVars, valVars, clockVars, expVars, request, occurrences, horizons>>

(* the rows of the listing user, as the table holds them (in UTC; a rule     *)
(* that does not parse is one written past the serializer, the case line 47  *)
(* of utils.py is there for): around                                         *)
(* the clock, on the same day as dates and as instants, with and without     *)
(* microseconds, with rules that end, that never end and that do not parse,  *)
(* and around the ten-year horizon                                           *)
ListRows ==
    LET timed(st, r) == Row(TitleOk, st, AddSeconds(st, 3600), FALSE, r)
        allday(st, r) == Row(TitleOk, st, None, TRUE, r)
        far == AddDays(Now0, 365 * ViewMaxFutureYears)
    IN  { timed(AddDays(Now0, 1), NoneStr),
          timed([AddDays(Now0, 1) EXCEPT !.us = 250000], NoneStr),
          timed(AddDays(Now0, -1), RuleDaily3),
          timed(AddDays(Now0, 1), RuleBogus),
          timed(AddSeconds(far, 1), NoneStr),
          timed(AddDays(far, -1), RuleDaily),
          allday(DT(101, 0, 0, 0), NoneStr),
          allday(DT(100, 21 * 3600, 0, 0), RuleDaily3) }

(* the tables of up to MaxListEvents rows *)
ListTables ==
    UNION {[1..n -> ListRows] : n \in 0..MaxListEvents}

InitList ==
    /\ events \in ListTables
    /\ nextId = Len(events) + 1
    /\ response = Status(0)
    /\ data = <<>>
    /\ result = Pending
    /\ InitExpandVars

NextList ==
    \/ Tick
    \/ ListBegin
    \/ ListExpand
    \/ ListFinish

SpecList == InitList /\ [][NextList]_vars

(***************************************************************************)
(* C1                                                                      *)
(***************************************************************************)
(* the structural invariant of a stored event *)
RowStructureOk(row) ==
    IF row.is_all_day
    THEN row.end_time = None
    ELSE /\ row.end_time # None
         /\ DtLt(row.start_time, row.end_time)
         /\ ~TotalSecondsGt(row.end_time, row.start_time, SecondsPerDay)

(* C1: every event in storage satisfies the structural invariant (all-day  *)
(* events have no end_time; timed events have an end_time strictly after   *)
(* start_time and at most 24 hours after it), also after partial updates.  *)
C1_StoredStructure == \A pk \in DOMAIN events : RowStructureOk(events[pk])

(***************************************************************************)
(* C3                                                                      *)
(***************************************************************************)
(* C3: an accepted all-day event is persisted with a start_time whose hour, *)
(* minute, second and microsecond are all zero when expressed in UTC.       *)
(* Stated of the row a successful create has just stored.                   *)
C3_AllDayMidnightUTC ==
    (response = Status(201) /\ events[nextId - 1].is_all_day)
        => LET u == astimezone_utc(events[nextId - 1].start_time)
           IN  u.sec = 0 /\ u.us = 0

(***************************************************************************)
(* C2                                                                      *)
(***************************************************************************)
Has(d, k) == k \in DOMAIN d /\ d[k] # None

AllDay(d) == "is_all_day" \in DOMAIN d /\ d.is_all_day

BothAware(d) ==
    Has(d, "start_time") /\ Has(d, "end_time") /\ d.start_time.aware /\ d.end_time.aware

(* the rules of section 4.1 in their order, each a predicate of the raw    *)
(* field set alone                                                          *)
RuleViolated(i, d) ==
    CASE i = 1 -> "title" \notin DOMAIN d
                  \/ \A n \in 1..Len(d.title) : d.title[n] \in Whitespace
      [] i = 2 -> ~Has(d, "start_time")
      [] i = 3 -> Has(d, "start_time") /\ ~d.start_time.aware
      [] i = 4 -> Has(d, "end_time") /\ ~d.end_time.aware
      [] i = 5 -> AllDay(d) /\ Has(d, "end_time")
      [] i = 6 -> ~AllDay(d) /\ ~Has(d, "end_time")
      [] i = 7 -> ~AllDay(d) /\ BothAware(d) /\ ~DtLt(d.start_time, d.end_time)
      [] i = 8 -> ~AllDay(d) /\ BothAware(d)
                  /\ TotalSecondsGt(d.end_time, d.start_time, SecondsPerDay)
      [] i = 9 -> /\ "recurrence_rule" \in DOMAIN d
                  /\ d.recurrence_rule \notin {NoneStr, ""}
                  /\ d.recurrence_rule \notin {RuleDaily, RuleDaily3, RuleWeekly}

RuleMessage ==
    << ErrTitle, ErrStartRequired, ErrStartNaive, ErrEndNaive, ErrAllDayEnd,
       ErrEndRequired, ErrEndBeforeStart, ErrTooLong, ErrRule >>

ViolatedRules(d) == {i \in 1..Len(RuleMessage) : RuleViolated(i, d)}

Earliest(S) == CHOOSE i \in S : \A j \in S : i <= j

(* C2: validate accepts a raw field set iff it violates no rule, and        *)
(* otherwise reports the message of the earliest violated rule in the fixed *)
(* order; the messages are pairwise distinct.                               *)
C2_FirstViolatedRuleReported ==
    /\ \A i, j \in 1..Len(RuleMessage) : i # j => RuleMessage[i] # RuleMessage[j]
    /\ result # Pending =>
          IF ViolatedRules(data) = {}
          THEN result.ok
          ELSE ~result.ok /\ result.error = RuleMessage[Earliest(ViolatedRules(data))]

(* witness: several rules are violated at once (a naive start_time, a naive *)
(* end_time on an all-day event, an unparseable rule) and the first of them *)
(* is the one reported                                                      *)
C2_Witness ==
    /\ result # Pending
    /\ {3, 4, 5, 9} \subseteq ViolatedRules(data)
    /\ result = Reject(ErrStartNaive)

(***************************************************************************)
(* C4, C5, C6, C10: one call of get_event_occurrences                      *)
(***************************************************************************)
Returned == call # Idle /\ outcome # Idle /\ outcome.kind = "return"

(* the call parsed a rule and walks it *)
Looped == call # Idle /\ call.rule # None

(* horizon = now + max_future_years years of 365 days, from the clock the  *)
(* call read                                                                *)
Horizon == [call.clock EXCEPT !.day = @ + 365 * call.max_future_years]

(* the i-th instant of the call's rule *)
Inst(i) == RuleInstant(call.rule, call.event.start_time, i)

(* the instant a returned start stands for: a calendar date is its midnight *)
StartInstant(x) == IF IsDate(x) THEN <<x.day, 0, 0>> ELSE Instant(x)

PastHorizon(i) == Inst(i) # None /\ TripleLt(Instant(Horizon), Instant(Inst(i)))

(* instant i exists, is on or after query_start and not later than horizon *)
InWindow(i) ==
    /\ Inst(i) # None
    /\ ~TripleLt(Instant(Inst(i)), Instant(call.start_date))
    /\ ~TripleLt(Instant(Horizon), Instant(Inst(i)))

(* no instant with a greater index can be inside the horizon *)
IndexBound ==
    IF Horizon.day < call.event.start_time.day THEN 0
    ELSE Horizon.day - call.event.start_time.day + 1

Candidates == {i \in 0..IndexBound : InWindow(i)}

(* the k-th smallest element of a set of numbers *)
KthSmallest(S, k) == CHOOSE i \in S : Cardinality({j \in S : j < i}) = k - 1

(* what expand returns for an accepted instant *)
Shown(occ) == IF call.event.is_all_day THEN [day |-> astimezone_utc(occ).day] ELSE occ

(* C4: when the rule has more than max_occurrences instants between        *)
(* query_start and horizon, expand returns exactly max_occurrences          *)
(* occurrences, the earliest ones on or after query_start.                  *)
C4_CountBound ==
    (Returned /\ Looped /\ Cardinality(Candidates) > call.max_occurrences)
        => /\ Len(outcome.value) = call.max_occurrences
           /\ \A k \in 1..call.max_occurrences :
                 outcome.value[k] = Shown(Inst(KthSmallest(Candidates, k)))

(* C4 for max_occurrences >= 1, where the code does as the claim says *)
C4_CountBoundFromOne == call # Idle /\ call.max_occurrences >= 1 => C4_CountBound

(* C5: expand never returns an occurrence whose start is later than horizon *)
C5_TimeBound ==
    Returned =>
        \A k \in 1..Len(outcome.value) :
            ~TripleLt(Instant(Horizon), StartInstant(outcome.value[k]))

(* witness: a rule that never ends was cut off by the horizon, not by the count *)
C5_Witness ==
    /\ Returned /\ Looped
    /\ call.rule.count = 0
    /\ Len(outcome.value) >= 1
    /\ Len(outcome.value) < call.max_occurrences
    /\ PastHorizon(Len(outcome.value))

NoRule == call # Idle /\ call.event.recurrence_rule \in {NoneStr, ""}

StartInWindow ==
    /\ ~TripleLt(Instant(call.event.start_time), Instant(call.start_date))
    /\ ~TripleLt(Instant(Horizon), Instant(call.event.start_time))

(* C6: for an event without a rule expand returns exactly one occurrence,   *)
(* at start_time or at its UTC calendar date when all-day, iff              *)
(* query_start <= start_time <= horizon, and the empty sequence otherwise.  *)
C6_NonRecurringWindow ==
    (NoRule /\ call.start_date.aware) =>
        /\ Returned
        /\ Len(outcome.value) = (IF StartInWindow THEN 1 ELSE 0)
        /\ Len(outcome.value) = 1 => outcome.value[1] = Shown(call.event.start_time)
        /\ TripleLt(Instant(call.event.start_time), Instant(call.start_date))
              => outcome.value = <<>>

(* witness: an all-day event without a rule, with query_start exactly at    *)
(* its start_time, returned as its UTC date                                 *)
C6_Witness ==
    /\ NoRule /\ Returned
    /\ call.event.is_all_day
    /\ outcome.value = <<[day |-> 99]>>
    /\ Instant(call.event.start_time) = Instant(call.start_date)

(* C10 (stopping point): an instant is pulled from the rule only while no   *)
(* earlier instant exceeded horizon and fewer than max_occurrences instants *)
(* have been accepted; once the loop is left nothing is pulled.             *)
C10_StopsAtBound ==
    (Looped /\ walk.pulled >= 1) =>
        /\ \A j \in 0..(walk.pulled - 2) : ~PastHorizon(j)
        /\ Cardinality({j \in 0..(walk.pulled - 2) : InWindow(j)}) < call.max_occurrences

(* C10 for max_occurrences >= 1 *)
C10_StopsAtBoundFromOne == call # Idle /\ call.max_occurrences >= 1 => C10_StopsAtBound

(* C10 (termination): every call returns or raises *)
C10_Terminates == (call # Idle) ~> (outcome # Idle)

(***************************************************************************)
(* C7, C8, C9: one list request                                            *)
(***************************************************************************)
Listed == listResponse # Status(0) /\ listResponse.status = 200

(* C7: the merged occurrence list is non-decreasing in start, a calendar    *)
(* date counting as the midnight (UTC) that begins it.                      *)
C7_MergedOrdered ==
    Listed =>
        \A i, j \in 1..Len(listResponse.body) :
            i < j => ~TripleLt(StartInstant(listResponse.body[j].occ),
                               StartInstant(listResponse.body[i].occ))

(* witness: dates and instants are mixed, and the records were collected in *)
(* another order than they are returned in                                  *)
C7_Witness ==
    /\ Listed
    /\ \E i, j \in 1..Len(listResponse.body) :
          IsDate(listResponse.body[i].occ) /\ ~IsDate(listResponse.body[j].occ)
    /\ listResponse.body # occurrences

(* the row's stored rule does not parse *)
Malformed(row) ==
    row.recurrence_rule \notin {NoneStr, "", RuleDaily, RuleDaily3, RuleWeekly}

(* the clock reading behind the k-th horizon of the request *)
ClockOf(k) == AddDays(horizons[k], -(365 * ViewMaxFutureYears))

RECURSIVE RecordsWithoutMalformed(_, _)
(* the records of the rows from position k on, the malformed rows left out *)
RecordsWithoutMalformed(pks, k) ==
    IF k > Len(pks) THEN <<>>
    ELSE (IF Malformed(events[pks[k]]) THEN <<>>
          ELSE occurrence_records(pks[k], events[pks[k]],
                   get_event_occurrences(events[pks[k]], request.start_date,
                       ViewMaxOccurrences, ViewMaxFutureYears, ClockOf(k)).value))
         \o RecordsWithoutMalformed(pks, k + 1)

(* C8: a row whose stored rule does not parse yields no occurrence and no   *)
(* error, and the response is the one the other rows alone would give.      *)
C8_MalformedRuleIsolated ==
    /\ listResponse.status # 500
    /\ Listed =>
          /\ \A i \in 1..Len(listResponse.body) :
                ~Malformed(events[listResponse.body[i].event_id])
          /\ listResponse.body
                = sort_by_start(RecordsWithoutMalformed(PksFrom(events, 1), 1))

(* witness: a malformed row was listed together with a row that has occurrences *)
C8_Witness ==
    /\ Listed
    /\ \E pk \in DOMAIN events : Malformed(events[pk])
    /\ listResponse.body # <<>>

(* C9: all expansions of one list request are bounded by the same horizon   *)
(* instant.                                                                 *)
C9_OneHorizon == \A i, j \in 1..Len(horizons) : horizons[i] = horizons[j]

====
